---- MODULE Spec2Model ----
(***************************************************************************)
(* backend/main.py: ws_handler from the accepted websocket to its close,    *)
(* and the three tasks it supervises once the upstream session exists,     *)
(*   t1 = client_to_gemini, t2 = gemini_recv_loop, t3 = gemini_to_client;  *)
(* and GeminiLiveBridge (enter, exit, recv_loop) of backend/gemini_live.py. *)
(* The tasks are asyncio coroutines on one event loop: a task runs alone   *)
(* from one suspension point (an await that really waits) to the next, so  *)
(* every action below is one such run.  out_q is an unbounded              *)
(* asyncio.Queue: put never waits, get waits only on an empty queue.       *)
(***************************************************************************)
EXTENDS Integers, Sequences, FiniteSets, TLC

\* Bounds of the model.
MaxEvents == 2         \* Events the response units put on out_q
MaxBatch == 2          \* function calls in one tool-call notification
MaxParts == 1          \* parts in one model turn
MaxClientMsgs == 1     \* messages the client sends during the relay
RelayEvents == 4       \* Events the response units put, where the queue is studied
RelayBatch == 1        \* function calls in a batch, where the queue is studied
RaceEvents == 1        \* Events the response units put, where the race is studied
BridgeEvents == 6      \* Events GeminiLiveBridge.recv_loop puts
MaxContexts == 4       \* connection contexts GeminiLiveBridge creates

VARIABLES
  pcSup,              \* position of ws_handler
  pc,                 \* position of each task t1, t2, t3
  cancel_requested,   \* tasks on which ws_handler called cancel()
  exc,                \* exception ws_handler is propagating
  client_connected,   \* the client end of the websocket is still there
  pending_first_message, \* initial_msg of client_to_gemini, None once handled
  msg,                \* client_to_gemini: the message whose handling is awaited
  nClient,            \* client messages read so far
  out_q,              \* the Outbound Queue
  nextSeq,            \* number of Events put on out_q so far
  flushed,            \* seq of every Event a flush removed from out_q
  function_calls,     \* gemini_recv_loop: the tool-call batch being processed
  batch_start,        \* nextSeq when the current batch began
  fcIdx,              \* gemini_recv_loop: index of the function call awaited
  function_responses, \* gemini_recv_loop: reply entries of the current batch
  gateway_calls,      \* indexes of the current batch given to mcp_call_tool
  tool_sent,          \* send_tool_response messages of the current batch
  evt,                \* gemini_to_client: the Event being sent
  delivered,          \* Events gemini_to_client has sent to the client
  direct_sent,        \* messages ws_handler and client_to_gemini sent on ws
  upstream_late,      \* an operation was issued on live_session after closing began
  teardown,           \* what ws_handler did after asyncio.wait returned
  handled,            \* ids of the client messages given to handle_client_msg, in order
  upstream_send_failed, \* a send_realtime_input of client_to_gemini has raised
  mcp_required,       \* the configuration switch MCP_REQUIRED
  discoveries,        \* calls of mcp_list_tools
  discovery,          \* how tool discovery ended
  first,              \* ws_handler: the message negotiation read, None if none
  config_msg,         \* the fields of the config message negotiation read
  cfg,                \* ws_handler: the session configuration
  model,              \* ws_handler: the model name
  connects,           \* the calls of client.aio.live.connect, in order
  live_session,       \* the configuration the upstream session was established on
  bridge_session,     \* GeminiLiveBridge._session is set
  bridge_pc,          \* position of GeminiLiveBridge.recv_loop
  bridge_q,           \* the out_q given to GeminiLiveBridge.recv_loop
  bridge_seq,         \* number of Events recv_loop has put so far
  bridge_last,        \* the last operation on bridge_q
  bridge_with,        \* "in" between __aenter__ and __aexit__ of the bridge
  bridge_ctx          \* the contexts made by _client.aio.live.connect, in order

vars == <<pcSup, pc, cancel_requested, exc, client_connected,
          pending_first_message, msg, nClient, out_q, nextSeq, flushed,
          function_calls, batch_start, fcIdx, function_responses,
          gateway_calls, tool_sent, evt, delivered, direct_sent, upstream_late, teardown,
          handled, upstream_send_failed, mcp_required, discoveries, discovery, first, config_msg, cfg, model,
          connects, live_session, bridge_session, bridge_pc, bridge_q, bridge_seq,
          bridge_last, bridge_with, bridge_ctx>>

Tasks == {"t1", "t2", "t3"}
Terminal == {"done", "raised", "cancelled"}
None == "None"

\* ---------------------------------------------------------------- inputs
\* A function call of a tool-call notification: id "" stands for a missing,
\* empty or non-string id, name "" for a missing, empty or non-string name.
FunctionCalls == [id : {"", "x"}, name : {"", "f"}]

\* Parts of a model turn: inline audio bytes, non-blank text, whitespace-only
\* text, or both audio bytes and text.
PartKinds == {"audio", "text", "blank", "both"}

RECURSIVE SeqsUpTo(_, _)
SeqsUpTo(S, n) ==
  IF n = 0 THEN {<<>>}
  ELSE LET shorter == SeqsUpTo(S, n - 1)
       IN shorter \cup {Append(s, x) : s \in {t \in shorter : Len(t) = n - 1}, x \in S}

\* A response unit is read in two steps, its tool_call first (a batch) and
\* its server_content once the batch is done (a content), so the model draws
\* the two halves when the code reads them.
Batches(n) == SeqsUpTo(FunctionCalls, n)

Contents(kinds, n) == [parts : SeqsUpTo(kinds, n), interrupted : BOOLEAN]

\* Response units whose server_content has no model turn.
NoModelTurn == [parts : {<<>>}, interrupted : BOOLEAN]

\* Client messages by what handle_client_msg does with them: audio whose data
\* is a string, audio without one, non-empty text, empty text, and the rest
\* by type.
ClientMsgs == {"audio", "audio_nodata", "text", "text_empty", "interrupt",
               "ping", "config", "unknown"}

Event(type, message, seq) == [type |-> type, message |-> message, seq |-> seq]

\* gemini_to_client holds no Event.
NoEvent == Event("none", "", 0)

\* A message ws_handler or client_to_gemini sends on the websocket with
\* send_json; text is a string, written as the sequence of its pieces.
WsMsg(type, text) == [type |-> type, text |-> text]

Entry(id, name, kind, value, idx) ==
  [id |-> id, name |-> name, kind |-> kind, value |-> value, idx |-> idx]

\* ------------------------------------------------------- configuration
\* A string is written as the sequence of its pieces; Blank is a piece of
\* whitespace.  Absent is a field that is missing or not a string.
Blank == " "
Absent == <<None>>

\* str.rstrip()
RECURSIVE RStrip(_)
RStrip(s) ==
  IF s # <<>> /\ s[Len(s)] = Blank THEN RStrip(SubSeq(s, 1, Len(s) - 1)) ELSE s

RECURSIVE LStrip(_)
LStrip(s) == IF s # <<>> /\ Head(s) = Blank THEN LStrip(Tail(s)) ELSE s

\* str.strip()
Strip(s) == LStrip(RStrip(s))

DEFAULT_MODEL == <<"gemini-2.5-flash-native-audio-preview-12-2025">>

\* A configuration by the keys that matter: tools and realtime_input_config
\* are TRUE when the key is present.
DEFAULT_CONFIG ==
  [response_modalities |-> "AUDIO",
   system_instruction |-> <<"You are a helpful and friendly salon voice assistant.">>,
   realtime_input_config |-> TRUE,
   tools |-> FALSE]

\* The fields of a config message; response_modalities is a list or None.
ConfigMsgs ==
  [system_instruction : {Absent, <<"X">>, <<"X", Blank>>},
   response_modalities : {None, "TEXT"},
   model : {Absent, <<Blank>>, <<"m1">>, <<Blank, "m1">>}]

\* No config message was read.
NoConfig == [system_instruction |-> Absent, response_modalities |-> None, model |-> Absent]

\* The overrides a config message f makes to configuration c.
ApplyConfig(c, f) ==
  [c EXCEPT !.system_instruction =
              IF f.system_instruction # Absent THEN f.system_instruction ELSE @,
            !.response_modalities =
              IF f.response_modalities # None THEN f.response_modalities ELSE @]

\* The model of the config message is ignored.
ModelIgnored(m, f) == m

\* `if isinstance(first.get("model"), str) and first["model"].strip()`
ModelOf(m, f) ==
  IF f.model # Absent /\ Strip(f.model) # <<>> THEN Strip(f.model) ELSE m

ToolsNotice == <<"<newlines>", "You can only answer using MCP data. Available tools: ...">>

\* The tool notice appended without touching the configuration's tools key.
WithToolsNoticeOnly(c, found) ==
  IF found THEN [c EXCEPT !.system_instruction = RStrip(@) \o ToolsNotice] ELSE c

\* `if tool_names: ...` and `if gemini_tools: cfg["tools"] = gemini_tools`
WithTools(c, found) ==
  IF found
  THEN [c EXCEPT !.system_instruction = RStrip(@) \o ToolsNotice, !.tools = TRUE]
  ELSE c

\* A retry with the configuration unchanged.
SameCfg(c) == c

\* minimal_cfg: the keys response_modalities, system_instruction and tools.
MinimalCfg(c) == [c EXCEPT !.realtime_input_config = FALSE]

\* Every first message is retained, a config message too.
RetainedAlways(m) == m

\* pending_first_message: a first message that is not a config message.
Retained(m) == IF m = "config" THEN None ELSE m

Attempt(m, c) == [model |-> m, config |-> c]

\* ------------------------------------------------------ gemini_recv_loop
\* An id check that rejects nothing.
NeverMissingId(fc) == FALSE

\* `not isinstance(fn_id, str) or not fn_id`
MissingId(fc) == fc.id = ""

\* A name check that rejects nothing.
NeverMissingName(fc) == FALSE

\* `not isinstance(fn_name, str) or not fn_name`
MissingName(fc) == fc.name = ""

MissingIdEvent(fc, seq) == Event("error", "Tool call missing id", seq)

MissingNameEntry(fc, i) ==
  Entry(fc.id, "unknown_tool", "error", "missing_function_name", i)

\* A failed call answered with the entry of a request without a name.
CallEntryAnonymous(fc, i, ok) ==
  IF ok THEN Entry(fc.id, fc.name, "output", "payload", i)
  ELSE Entry(fc.id, "unknown_tool", "error", "missing_function_name", i)

\* The entry appended after mcp_call_tool returned (ok) or raised.
CallEntry(fc, i, ok) ==
  IF ok THEN Entry(fc.id, fc.name, "output", "payload", i)
  ELSE Entry(fc.id, fc.name, "error", "str(e)", i)

\* The loop with `break` where the missing-name branch has `continue`.
RECURSIVE DispatchBreak(_, _, _, _, _)
DispatchBreak(fcs, i, frs, q, seq) ==
  IF i > Len(fcs)
  THEN [stop |-> "end", i |-> i, frs |-> frs, q |-> q, seq |-> seq]
  ELSE IF MissingId(fcs[i])
  THEN DispatchBreak(fcs, i + 1, frs, Append(q, MissingIdEvent(fcs[i], seq)), seq + 1)
  ELSE IF MissingName(fcs[i])
  THEN [stop |-> "end", i |-> i + 1, frs |-> Append(frs, MissingNameEntry(fcs[i], i)),
        q |-> q, seq |-> seq]
  ELSE [stop |-> "call", i |-> i, frs |-> frs, q |-> q, seq |-> seq]

\* The `for fc in function_calls` loop from index i up to its next await:
\* stop = "call" at `await mcp_call_tool` for function call i, "end" after the
\* last function call.
RECURSIVE DispatchFrom(_, _, _, _, _)
DispatchFrom(fcs, i, frs, q, seq) ==
  IF i > Len(fcs)
  THEN [stop |-> "end", i |-> i, frs |-> frs, q |-> q, seq |-> seq]
  ELSE IF MissingId(fcs[i])
  THEN DispatchFrom(fcs, i + 1, frs, Append(q, MissingIdEvent(fcs[i], seq)), seq + 1)
  ELSE IF MissingName(fcs[i])
  THEN DispatchFrom(fcs, i + 1, Append(frs, MissingNameEntry(fcs[i], i)), q, seq)
  ELSE [stop |-> "call", i |-> i, frs |-> frs, q |-> q, seq |-> seq]

\* How many function calls of a batch have no id.
MissingIds(fcs) == Cardinality({i \in DOMAIN fcs : MissingId(fcs[i])})

\* The Events one part of a model turn puts on out_q.
PartEvents(part, seq) ==
  CASE part = "audio" -> <<Event("audio", "", seq)>>
    [] part = "text" -> <<Event("text", "", seq)>>
    [] part = "both" -> <<Event("audio", "", seq), Event("text", "", seq + 1)>>
    [] OTHER -> <<>>

RECURSIVE PutParts(_, _, _)
PutParts(parts, q, seq) ==
  IF parts = <<>> THEN [q |-> q, seq |-> seq]
  ELSE LET es == PartEvents(Head(parts), seq)
       IN PutParts(Tail(parts), q \o es, seq + Len(es))

\* Drain as `if not out_q.empty()` would do it: one Event removed.
DrainOnce(q) == IF q = <<>> THEN q ELSE Tail(q)

\* `while not out_q.empty(): out_q.get_nowait()`
RECURSIVE Drain(_)
Drain(q) == IF q = <<>> THEN q ELSE Drain(Tail(q))

\* The interruption branch without its drain loop.
FlushWithoutDrain(q, seq) ==
  [q |-> Append(q, Event("interrupted", "", seq)), seq |-> seq + 1, dropped |-> {}]

\* The interruption branch: drain, then put the Interrupted Event.
Flush(q, seq) ==
  [q |-> Append(Drain(q), Event("interrupted", "", seq)),
   seq |-> seq + 1,
   dropped |-> {q[k].seq : k \in DOMAIN q}]

\* The rest of one response unit after its tool calls: the model-turn parts,
\* then the interruption branch.
Content(c, q, seq) ==
  LET p == PutParts(c.parts, q, seq)
  IN IF c.interrupted THEN Flush(p.q, p.seq)
     ELSE [q |-> p.q, seq |-> p.seq, dropped |-> {}]

\* The tool-call branch for batch fcs from function call i to its next
\* suspension point: `await mcp_call_tool` ("call"), or
\* `await live_session.send_tool_response` ("toolsend"); "content" when the
\* branch is over with no reply entry and nothing is sent.
RunBatch(fcs, i, frs, q, seq, calls) ==
  LET d == DispatchFrom(fcs, i, frs, q, seq)
      base == [pc |-> "content", fcIdx |-> 0, frs |-> d.frs, q |-> d.q,
               seq |-> d.seq, calls |-> calls, sent |-> <<>>]
  IN IF d.stop = "call"
     THEN [base EXCEPT !.pc = "call", !.fcIdx = d.i, !.calls = Append(calls, d.i)]
     ELSE IF d.frs # <<>>
     THEN [base EXCEPT !.pc = "toolsend", !.sent = <<d.frs>>]
     ELSE base

\* `except Exception as e: await out_q.put({"type": "error", ...})`
RecvErrorEvent(seq) == Event("error", "Gemini receive error", seq)

\* ------------------------------------------------------------ scheduling
\* A task runs its next step when it exists, has not finished and no cancel()
\* is pending on it: a task with a pending cancel() gets CancelledError thrown
\* at its await the next time it is scheduled, and no handler of these
\* coroutines catches CancelledError (`except Exception` does not).
Runnable(t) == pc[t] \notin Terminal \cup {"none"} /\ t \notin cancel_requested

\* ws_handler is past asyncio.wait: CLOSING has begun.
Closing == pcSup \notin {"ready", "wait"}

\* The new value of upstream_late after a step that issues (or not) an
\* operation on live_session.
UpstreamOp(issued) == upstream_late \/ (issued /\ Closing)

InitWith(firstMsgs) ==
  /\ pcSup = "ready"
  /\ pc = [t \in Tasks |-> "none"]
  /\ cancel_requested = {}
  /\ exc = None
  /\ client_connected = TRUE
  /\ pending_first_message \in firstMsgs
  /\ msg = None
  /\ nClient = 0
  /\ out_q = <<>>
  /\ nextSeq = 1
  /\ flushed = {}
  /\ function_calls = <<>>
  /\ batch_start = 0
  /\ fcIdx = 0
  /\ function_responses = <<>>
  /\ gateway_calls = <<>>
  /\ tool_sent = <<>>
  /\ evt = NoEvent
  /\ delivered = <<>>
  /\ direct_sent = <<>>
  /\ upstream_late = FALSE
  /\ teardown = <<>>
  /\ handled = <<>>
  /\ upstream_send_failed = FALSE
  /\ mcp_required = FALSE
  /\ discoveries = 1
  /\ discovery = "failed"
  /\ first = pending_first_message
  /\ config_msg = NoConfig
  /\ cfg = DEFAULT_CONFIG
  /\ model = DEFAULT_MODEL
  /\ connects = <<Attempt(DEFAULT_MODEL, DEFAULT_CONFIG)>>
  /\ live_session = connects
  /\ bridge_session = FALSE
  /\ bridge_pc = "idle"
  /\ bridge_q = <<>>
  /\ bridge_seq = 1
  /\ bridge_last = "none"
  /\ bridge_with = "out"
  /\ bridge_ctx = <<>>

\* The relay phase after a session start in which discovery failed, the
\* first message was not a config message and the first connect succeeded.
\* ws_handler retains any first message that is not a config message.
Init == InitWith({None} \cup (ClientMsgs \ {"config"}))

\* The websocket has connected and ws_handler awaits ws.accept().
InitStart(required) ==
  /\ pcSup = "accept"
  /\ pc = [t \in Tasks |-> "none"]
  /\ cancel_requested = {}
  /\ exc = None
  /\ client_connected = TRUE
  /\ pending_first_message = None
  /\ msg = None
  /\ nClient = 0
  /\ out_q = <<>>
  /\ nextSeq = 1
  /\ flushed = {}
  /\ function_calls = <<>>
  /\ batch_start = 0
  /\ fcIdx = 0
  /\ function_responses = <<>>
  /\ gateway_calls = <<>>
  /\ tool_sent = <<>>
  /\ evt = NoEvent
  /\ delivered = <<>>
  /\ direct_sent = <<>>
  /\ upstream_late = FALSE
  /\ teardown = <<>>
  /\ handled = <<>>
  /\ upstream_send_failed = FALSE
  /\ mcp_required \in required
  /\ discoveries = 0
  /\ discovery = "none"
  /\ first = None
  /\ config_msg = NoConfig
  /\ cfg = DEFAULT_CONFIG
  /\ model = DEFAULT_MODEL
  /\ connects = <<>>
  /\ live_session = <<>>
  /\ bridge_session = FALSE
  /\ bridge_pc = "idle"
  /\ bridge_q = <<>>
  /\ bridge_seq = 1
  /\ bridge_last = "none"
  /\ bridge_with = "out"
  /\ bridge_ctx = <<>>

supVars == <<pcSup, cancel_requested, exc, teardown>>
startVars == <<mcp_required, discoveries, discovery, first, config_msg, cfg, model,
               connects, live_session>>
bridgeVars == <<bridge_session, bridge_pc, bridge_q, bridge_seq, bridge_last, bridge_with,
                bridge_ctx>>
t1Vars == <<pending_first_message, msg, nClient, handled, upstream_send_failed>>
t2Vars == <<nextSeq, flushed, function_calls, batch_start, fcIdx, function_responses,
            gateway_calls, tool_sent>>
t3Vars == <<evt, delivered>>

\* The client goes away (closes the websocket or drops the connection).
ClientDisconnect ==
  /\ client_connected
  /\ pcSup # "closed"
  /\ client_connected' = FALSE
  /\ UNCHANGED <<startVars, bridgeVars, supVars, pc, t1Vars, t2Vars, out_q, t3Vars, direct_sent, upstream_late>>

\* ------------------------------------------------------ gemini_recv_loop
\* First step of the task: `turn = live_session.receive()` and the first
\* `async for` step, which waits for the upstream stream.
T2Start ==
  /\ pc["t2"] = "start" /\ Runnable("t2")
  /\ pc' = [pc EXCEPT !["t2"] = "recv"]
  /\ upstream_late' = UpstreamOp(TRUE)
  /\ UNCHANGED <<startVars, bridgeVars, supVars, client_connected, t1Vars, t2Vars, out_q, t3Vars, direct_sent>>

\* The locals of one loop iteration are dead once the iteration is over.
T2ClearBatch ==
  /\ function_calls' = <<>>
  /\ batch_start' = 0
  /\ fcIdx' = 0
  /\ function_responses' = <<>>
  /\ gateway_calls' = <<>>
  /\ tool_sent' = <<>>

\* The rest of the response unit, content c, is processed and the loop waits
\* for the next unit of the upstream stream.
T2Finish(c, q, seq, maxEvents) ==
  LET n == Content(c, q, seq)
  IN /\ n.seq <= maxEvents + 1
     /\ out_q' = n.q
     /\ nextSeq' = n.seq
     /\ flushed' = flushed \cup n.dropped
     /\ pc' = [pc EXCEPT !["t2"] = "recv"]
     /\ upstream_late' = UpstreamOp(TRUE)
     /\ T2ClearBatch

\* gemini_recv_loop goes from function call i of batch fcs, begun at sequence
\* number start, to its next suspension point.
T2Run(fcs, start, i, frs, calls, contents, maxEvents) ==
  LET b == RunBatch(fcs, i, frs, out_q, nextSeq, calls)
  IN IF b.pc = "content"
     THEN \E c \in contents : T2Finish(c, b.q, b.seq, maxEvents)
     ELSE /\ pc' = [pc EXCEPT !["t2"] = b.pc]
          /\ out_q' = b.q
          /\ nextSeq' = b.seq
          /\ flushed' = flushed
          /\ upstream_late' = UpstreamOp(b.pc = "toolsend")
          /\ function_calls' = fcs
          /\ batch_start' = start
          /\ fcIdx' = b.fcIdx
          /\ function_responses' = b.frs
          /\ gateway_calls' = b.calls
          /\ tool_sent' = b.sent

\* The upstream stream yields a response unit.
T2Recv(batches, contents, maxEvents) ==
  /\ pc["t2"] = "recv" /\ Runnable("t2")
  /\ \E fcs \in batches :
       /\ nextSeq + MissingIds(fcs) <= maxEvents + 1
       /\ T2Run(fcs, nextSeq, 1, <<>>, <<>>, contents, maxEvents)
  /\ UNCHANGED <<startVars, bridgeVars, supVars, client_connected, t1Vars, t3Vars, direct_sent>>

\* mcp_call_tool returns (ok) or raises for function call fcIdx.
T2CallReturns(contents, maxEvents) ==
  /\ pc["t2"] = "call" /\ Runnable("t2")
  /\ \E ok \in BOOLEAN :
       LET fc == function_calls[fcIdx]
           frs == Append(function_responses, CallEntry(fc, fcIdx, ok))
       IN T2Run(function_calls, batch_start, fcIdx + 1, frs, gateway_calls,
                contents, maxEvents)
  /\ UNCHANGED <<startVars, bridgeVars, supVars, client_connected, t1Vars, t3Vars, direct_sent>>

\* send_tool_response returns: the rest of the response unit is processed.
T2ToolSendReturns(contents, maxEvents) ==
  /\ pc["t2"] = "toolsend" /\ Runnable("t2")
  /\ \E c \in contents : T2Finish(c, out_q, nextSeq, maxEvents)
  /\ UNCHANGED <<startVars, bridgeVars, supVars, client_connected, t1Vars, t3Vars, direct_sent>>

\* Reading the upstream stream, or send_tool_response, raises: the handler
\* puts the terminal Error Event and the coroutine returns.
T2Raises ==
  /\ pc["t2"] \in {"recv", "toolsend"} /\ Runnable("t2")
  /\ out_q' = Append(out_q, RecvErrorEvent(nextSeq))
  /\ nextSeq' = nextSeq + 1
  /\ pc' = [pc EXCEPT !["t2"] = "done"]
  /\ T2ClearBatch
  /\ UNCHANGED <<startVars, bridgeVars, supVars, client_connected, t1Vars, flushed, t3Vars, direct_sent,
                 upstream_late>>

\* ------------------------------------------------------ gemini_to_client
\* get() on a queue that hands out its newest Event.
TakeNewest(q) ==
  IF q = <<>> THEN [pc |-> "get", evt |-> NoEvent, q |-> q]
  ELSE [pc |-> "send", evt |-> q[Len(q)], q |-> SubSeq(q, 1, Len(q) - 1)]

\* `evt = await out_q.get()` on a non-empty queue returns at once and
\* `await send_json(ws, evt)` starts; on an empty queue the task waits.
TakeNext(q) ==
  IF q = <<>> THEN [pc |-> "get", evt |-> NoEvent, q |-> q]
  ELSE [pc |-> "send", evt |-> Head(q), q |-> Tail(q)]

T3Start ==
  /\ pc["t3"] = "start" /\ Runnable("t3")
  /\ LET n == TakeNext(out_q)
     IN /\ pc' = [pc EXCEPT !["t3"] = n.pc]
        /\ evt' = n.evt
        /\ out_q' = n.q
  /\ UNCHANGED <<startVars, bridgeVars, supVars, client_connected, t1Vars, t2Vars, delivered, direct_sent,
                 upstream_late>>

\* The waiting get() is woken by a put.
T3Get ==
  /\ pc["t3"] = "get" /\ Runnable("t3")
  /\ out_q # <<>>
  /\ LET n == TakeNext(out_q)
     IN /\ pc' = [pc EXCEPT !["t3"] = n.pc]
        /\ evt' = n.evt
        /\ out_q' = n.q
  /\ UNCHANGED <<startVars, bridgeVars, supVars, client_connected, t1Vars, t2Vars, delivered, direct_sent,
                 upstream_late>>

\* send_json(ws, evt) returns; the loop goes round to the next get().
T3SendReturns ==
  /\ pc["t3"] = "send" /\ Runnable("t3")
  /\ client_connected
  /\ delivered' = Append(delivered, evt)
  /\ LET n == TakeNext(out_q)
     IN /\ pc' = [pc EXCEPT !["t3"] = n.pc]
        /\ evt' = n.evt
        /\ out_q' = n.q
  /\ UNCHANGED <<startVars, bridgeVars, supVars, client_connected, t1Vars, t2Vars, direct_sent, upstream_late>>

\* send_json(ws, evt) raises: nothing catches it, the task ends.
T3SendRaises ==
  /\ pc["t3"] = "send" /\ Runnable("t3")
  /\ ~client_connected
  /\ pc' = [pc EXCEPT !["t3"] = "raised"]
  /\ UNCHANGED <<startVars, bridgeVars, supVars, client_connected, t1Vars, t2Vars, out_q, t3Vars, direct_sent,
                 upstream_late>>

\* ------------------------------------------------------ client_to_gemini
\* Where handle_client_msg(m) first waits: on live_session.send_realtime_input
\* ("upsend"), on send_json(ws, ...) ("wssend"), or nowhere, so that the loop
\* goes on to recv_json ("recv").
HandleClientMsg(m) ==
  CASE m \in {"audio", "text", "interrupt"} -> "upsend"
    [] m \in {"ping", "unknown"} -> "wssend"
    [] OTHER -> "recv"

\* `t = msg.get("type")`
TypeOf(m) ==
  CASE m = "audio_nodata" -> "audio"
    [] m = "text_empty" -> "text"
    [] m = "unknown" -> "bogus"
    [] OTHER -> m

\* An unknown type answered like a ping.
ClientReplyPong(m) == WsMsg("pong", <<>>)

\* What handle_client_msg(m) sends on the websocket.
ClientReply(m) ==
  IF m = "ping" THEN WsMsg("pong", <<>>)
  ELSE WsMsg("error", <<"Unknown message type: ", TypeOf(m)>>)

\* handle_client_msg(m) is called for the client message numbered id.
T1Handle(m, id) ==
  /\ handled' = Append(handled, id)
  /\ msg' = IF HandleClientMsg(m) = "recv" THEN None ELSE m
  /\ pc' = [pc EXCEPT !["t1"] = HandleClientMsg(m)]
  /\ upstream_late' = UpstreamOp(HandleClientMsg(m) = "upsend")

\* First step of the task: the retained first message, if any, is handled.
T1Start ==
  /\ pc["t1"] = "start" /\ Runnable("t1")
  /\ IF pending_first_message # None
     THEN T1Handle(pending_first_message, 0)
     ELSE /\ pc' = [pc EXCEPT !["t1"] = "recv"]
          /\ UNCHANGED <<msg, upstream_late, handled>>
  /\ pending_first_message' = None
  /\ UNCHANGED <<startVars, bridgeVars, supVars, client_connected, nClient, upstream_send_failed, t2Vars, out_q, t3Vars, direct_sent>>

\* recv_json returns client message m.
T1Recv(maxMsgs) ==
  /\ pc["t1"] = "recv" /\ Runnable("t1")
  /\ client_connected
  /\ nClient < maxMsgs
  /\ \E m \in ClientMsgs : T1Handle(m, nClient + 1)
  /\ nClient' = nClient + 1
  /\ UNCHANGED <<startVars, bridgeVars, supVars, client_connected, pending_first_message, upstream_send_failed, t2Vars, out_q,
                 t3Vars, direct_sent>>

\* recv_json raises on text that is not JSON: the loop reports it and returns.
T1RecvInvalid(maxMsgs) ==
  /\ pc["t1"] = "recv" /\ Runnable("t1")
  /\ client_connected
  /\ nClient < maxMsgs
  /\ nClient' = nClient + 1
  /\ msg' = "Invalid message"
  /\ pc' = [pc EXCEPT !["t1"] = "errsend"]
  /\ UNCHANGED <<startVars, bridgeVars, supVars, client_connected, pending_first_message, handled, upstream_send_failed, t2Vars, out_q,
                 t3Vars, direct_sent, upstream_late>>

\* recv_json raises WebSocketDisconnect: the coroutine returns.
T1RecvDisconnect ==
  /\ pc["t1"] = "recv" /\ Runnable("t1")
  /\ ~client_connected
  /\ pc' = [pc EXCEPT !["t1"] = "done"]
  /\ UNCHANGED <<startVars, bridgeVars, supVars, client_connected, t1Vars, t2Vars, out_q, t3Vars, direct_sent,
                 upstream_late>>

\* send_realtime_input returns.
T1UpstreamSendReturns ==
  /\ pc["t1"] = "upsend" /\ Runnable("t1")
  /\ pc' = [pc EXCEPT !["t1"] = "recv"]
  /\ msg' = None
  /\ UNCHANGED <<startVars, bridgeVars, supVars, client_connected, pending_first_message, nClient, handled, upstream_send_failed, t2Vars,
                 out_q, t3Vars, direct_sent, upstream_late>>

\* send_realtime_input raises: swallowed for an interrupt, otherwise the
\* outer handler reports "Gemini send error" and the coroutine returns.
T1UpstreamSendRaises ==
  /\ pc["t1"] = "upsend" /\ Runnable("t1")
  /\ upstream_send_failed' = TRUE
  /\ IF msg = "interrupt"
     THEN /\ pc' = [pc EXCEPT !["t1"] = "recv"]
          /\ msg' = None
     ELSE /\ pc' = [pc EXCEPT !["t1"] = "errsend"]
          /\ msg' = "Gemini send error"
  /\ UNCHANGED <<startVars, bridgeVars, supVars, client_connected, pending_first_message, nClient, handled, t2Vars,
                 out_q, t3Vars, direct_sent, upstream_late>>

\* send_json(ws, pong / unknown-type error) returns.
T1ReplyReturns ==
  /\ pc["t1"] = "wssend" /\ Runnable("t1")
  /\ client_connected
  /\ direct_sent' = Append(direct_sent, ClientReply(msg))
  /\ pc' = [pc EXCEPT !["t1"] = "recv"]
  /\ msg' = None
  /\ UNCHANGED <<startVars, bridgeVars, supVars, client_connected, pending_first_message, nClient, handled, upstream_send_failed, t2Vars,
                 out_q, t3Vars, upstream_late>>

\* send_json(ws, pong / unknown-type error) raises: the outer handler.
T1ReplyRaises ==
  /\ pc["t1"] = "wssend" /\ Runnable("t1")
  /\ ~client_connected
  /\ msg' = "Gemini send error"
  /\ pc' = [pc EXCEPT !["t1"] = "errsend"]
  /\ UNCHANGED <<startVars, bridgeVars, supVars, client_connected, pending_first_message, nClient, handled, upstream_send_failed, t2Vars,
                 out_q, t3Vars, direct_sent, upstream_late>>

\* The last send_json of the coroutine returns or raises (swallowed).
T1ErrorSendEnds ==
  /\ pc["t1"] = "errsend" /\ Runnable("t1")
  /\ direct_sent' = IF client_connected THEN Append(direct_sent, WsMsg("error", <<msg>>))
                    ELSE direct_sent
  /\ pc' = [pc EXCEPT !["t1"] = "done"]
  /\ msg' = None
  /\ UNCHANGED <<startVars, bridgeVars, supVars, client_connected, pending_first_message, nClient, handled, upstream_send_failed, t2Vars,
                 out_q, t3Vars, upstream_late>>

\* ------------------------------------------------------------ ws_handler
\* Only one of the pending tasks is cancelled.
PendingOne(pcs) ==
  LET P == {t \in Tasks : pcs[t] \notin Terminal}
  IN IF P = {} THEN {} ELSE {CHOOSE t \in P : TRUE}

\* No pending task is cancelled.
PendingNone(pcs) == {}

\* `for p in pending: p.cancel()`: the tasks asyncio.wait returned as pending.
Pending(pcs) == {t \in Tasks : pcs[t] \notin Terminal}

\* `await ws.accept()` returns; ws_handler calls mcp_list_tools.
Accept ==
  /\ pcSup = "accept"
  /\ pcSup' = "discover"
  /\ discoveries' = discoveries + 1
  /\ discovery' = "pending"
  /\ UNCHANGED <<cancel_requested, exc, teardown, pc, client_connected, t1Vars, t2Vars,
                 out_q, t3Vars, direct_sent, upstream_late, mcp_required, first,
                 config_msg, cfg, model, connects, live_session, bridgeVars>>

\* Discovery that is never fatal.
RefusedNever(o) == FALSE

\* `except Exception ...: if MCP_REQUIRED:` the failure ends the session.
Refused(o) == o = "failed" /\ mcp_required

\* mcp_list_tools returns tools ("tools"), returns none ("empty") or raises
\* ("failed"); ws_handler goes on to read the first message, or refuses the
\* session when discovery is required.
DiscoverReturns(outcomes) ==
  /\ pcSup = "discover"
  /\ \E o \in outcomes :
       /\ discovery' = o
       /\ pcSup' = IF Refused(o) THEN "refuse" ELSE "negotiate"
  /\ UNCHANGED <<cancel_requested, exc, teardown, pc, client_connected, t1Vars, t2Vars,
                 out_q, t3Vars, direct_sent, upstream_late, mcp_required, discoveries,
                 first, config_msg, cfg, model, connects, live_session, bridgeVars>>

\* `await send_json(ws, {"type": "error", "message": "MCP unavailable; ..."})`
\* returns or raises.
Refuse ==
  /\ pcSup = "refuse"
  /\ IF client_connected
     THEN /\ direct_sent' = Append(direct_sent,
                              WsMsg("error", <<"MCP unavailable; cannot start session.">>))
          /\ pcSup' = "refuse_close"
          /\ exc' = exc
     ELSE /\ \E e \in {"WebSocketDisconnect", "Exception"} :
               /\ exc' = e
               /\ pcSup' = IF e = "Exception" THEN "report" ELSE "close"
          /\ direct_sent' = direct_sent
  /\ UNCHANGED <<cancel_requested, teardown, pc, client_connected, t1Vars, t2Vars, out_q,
                 t3Vars, upstream_late, startVars, bridgeVars>>

\* `await ws.close()` and `return` after the refusal; the close may raise
\* when the client is gone.
RefuseClose ==
  /\ pcSup = "refuse_close"
  /\ teardown' = Append(teardown, "close")
  /\ \E raises \in {FALSE, ~client_connected} :
       /\ exc' = IF raises THEN "Exception" ELSE exc
       /\ pcSup' = IF raises THEN "report" ELSE "close"
  /\ UNCHANGED <<cancel_requested, pc, client_connected, t1Vars, t2Vars, out_q, t3Vars,
                 direct_sent, upstream_late, startVars, bridgeVars>>

\* `first = await asyncio.wait_for(recv_json(ws), timeout=2.0)` returns a
\* message of firstMsgs, or raises (timeout, disconnect, text that is not
\* JSON) and first is None; the configuration is completed and the first
\* connect is called.
Negotiate(firstMsgs, configs) ==
  /\ pcSup = "negotiate"
  /\ \E m \in firstMsgs \cup {None} :
     \E f \in IF m = "config" THEN configs ELSE {NoConfig} :
       LET c == WithTools(ApplyConfig(cfg, f), discovery = "tools")
           md == ModelOf(model, f)
       IN /\ m # None => client_connected
          /\ first' = m
          /\ config_msg' = f
          /\ pending_first_message' = Retained(m)
          /\ cfg' = c
          /\ model' = md
          /\ connects' = Append(connects, Attempt(md, c))
  /\ pcSup' = "connect"
  /\ UNCHANGED <<cancel_requested, exc, teardown, pc, client_connected, msg, nClient,
                 handled, upstream_send_failed, t2Vars, out_q, t3Vars, direct_sent,
                 upstream_late, mcp_required,
                 discoveries, discovery, live_session, bridgeVars>>

\* `connect_ctx.__aenter__()` with the full configuration returns, or raises
\* and the connect with minimal_cfg is called.
ConnectReturns ==
  /\ pcSup = "connect"
  /\ \E ok \in BOOLEAN :
       IF ok
       THEN /\ live_session' = <<connects[Len(connects)]>>
            /\ pcSup' = "ready"
            /\ connects' = connects
       ELSE /\ connects' = Append(connects, Attempt(model, MinimalCfg(cfg)))
            /\ pcSup' = "retry"
            /\ live_session' = live_session
  /\ UNCHANGED <<cancel_requested, exc, teardown, pc, client_connected, t1Vars, t2Vars,
                 out_q, t3Vars, direct_sent, upstream_late, mcp_required, discoveries,
                 discovery, first, config_msg, cfg, model, bridgeVars>>

\* `connect_ctx.__aenter__()` of the retry returns, or raises: the exception
\* reaches the outer handler of ws_handler.
RetryReturns ==
  /\ pcSup = "retry"
  /\ \E ok \in BOOLEAN :
       IF ok
       THEN /\ live_session' = <<connects[Len(connects)]>>
            /\ pcSup' = "ready"
            /\ exc' = exc
       ELSE /\ exc' = "Exception"
            /\ pcSup' = "report"
            /\ live_session' = live_session
  /\ UNCHANGED <<cancel_requested, teardown, pc, client_connected, t1Vars, t2Vars, out_q,
                 t3Vars, direct_sent, upstream_late, mcp_required, discoveries, discovery,
                 first, config_msg, cfg, model, connects, bridgeVars>>

\* The tasks are created with no Ready sent.
StartWithoutReady ==
  /\ pcSup = "ready"
  /\ pc' = [t \in Tasks |-> "start"]
  /\ pcSup' = "wait"
  /\ first' = None
  /\ UNCHANGED <<cancel_requested, exc, teardown, client_connected, t1Vars, t2Vars, out_q,
                 t3Vars, direct_sent, upstream_late, mcp_required, discoveries, discovery,
                 config_msg, cfg, model, connects, live_session, bridgeVars>>

\* `await send_json(ws, {"type": "ready", ...})`, then the three tasks are
\* created and ws_handler waits in asyncio.wait.  The local first is dead by
\* then.
SendReady ==
  /\ pcSup = "ready"
  /\ IF client_connected
     THEN /\ direct_sent' = Append(direct_sent, WsMsg("ready", model))
          /\ pc' = [t \in Tasks |-> "start"]
          /\ pcSup' = "wait"
          /\ exc' = exc
     ELSE /\ \E e \in {"WebSocketDisconnect", "Exception"} : exc' = e
          /\ pcSup' = "release"
          /\ UNCHANGED <<direct_sent, pc>>
  /\ first' = None
  /\ UNCHANGED <<mcp_required, discoveries, discovery, config_msg, cfg, model, connects,
                 live_session, bridgeVars, cancel_requested, teardown, client_connected, t1Vars, t2Vars, out_q,
                 t3Vars, upstream_late>>

\* A task the event loop has already queued to run: one just created, or
\* gemini_to_client woken from get() by a put.  The loop runs its queue in
\* order, and ws_handler is queued only after the callback of the finished
\* task has run, so these tasks take their step before ws_handler resumes.
QueuedToRun(t) ==
  \/ pc[t] = "start"
  \/ t = "t3" /\ pc[t] = "get" /\ out_q # <<>>

\* asyncio.wait(FIRST_COMPLETED) returns once a task has finished; every
\* task still pending is cancelled before ws_handler waits again.
WaitReturns ==
  /\ pcSup = "wait"
  /\ \E t \in Tasks : pc[t] \in Terminal
  /\ \A t \in Tasks : ~QueuedToRun(t)
  /\ cancel_requested' = Pending(pc)
  /\ teardown' = Append(teardown, "cancel")
  /\ pcSup' = "release"
  /\ UNCHANGED <<startVars, bridgeVars, exc, pc, client_connected, t1Vars, t2Vars, out_q, t3Vars, direct_sent,
                 upstream_late>>

\* `finally: await connect_ctx.__aexit__(None, None, None)`, which may raise.
Release ==
  /\ pcSup = "release"
  /\ teardown' = Append(teardown, "release")
  /\ \E raises \in BOOLEAN :
       /\ exc' = IF raises THEN "Exception" ELSE exc
       /\ pcSup' = IF exc' = "Exception" THEN "report" ELSE "close"
  /\ UNCHANGED <<startVars, bridgeVars, cancel_requested, pc, client_connected, t1Vars, t2Vars, out_q, t3Vars,
                 direct_sent, upstream_late>>

\* `except Exception as e: send_json(ws, error)`, failures swallowed.
Report ==
  /\ pcSup = "report"
  /\ direct_sent' = IF client_connected THEN Append(direct_sent, WsMsg("error", <<"str(e)">>))
                    ELSE direct_sent
  /\ pcSup' = "close"
  /\ UNCHANGED <<startVars, bridgeVars, cancel_requested, exc, teardown, pc, client_connected, t1Vars, t2Vars,
                 out_q, t3Vars, upstream_late>>

\* `finally: await ws.close()`, failures swallowed.
Close ==
  /\ pcSup = "close"
  /\ teardown' = Append(teardown, "close")
  /\ pcSup' = "closed"
  /\ UNCHANGED <<startVars, bridgeVars, cancel_requested, exc, pc, client_connected, t1Vars, t2Vars, out_q,
                 t3Vars, direct_sent, upstream_late>>

\* The tasks with a pending cancel() are scheduled, one after the other in
\* the same pass of the event loop: CancelledError ends each of them.
TasksCancelled ==
  /\ \E t \in cancel_requested : pc[t] \notin Terminal
  /\ pc' = [t \in Tasks |-> IF t \in cancel_requested /\ pc[t] \notin Terminal
                            THEN "cancelled" ELSE pc[t]]
  /\ IF "t1" \in cancel_requested
     THEN msg' = None /\ pending_first_message' = None
     ELSE UNCHANGED <<msg, pending_first_message>>
  /\ IF "t2" \in cancel_requested THEN T2ClearBatch
     ELSE UNCHANGED <<function_calls, batch_start, fcIdx, function_responses,
                      gateway_calls, tool_sent>>
  /\ UNCHANGED <<startVars, bridgeVars, supVars, client_connected, nClient, handled, upstream_send_failed, nextSeq, flushed, out_q,
                 t3Vars, direct_sent, upstream_late>>

Supervisor == SendReady \/ WaitReturns \/ Release \/ Report \/ Close

\* client_to_gemini with a client that sends up to maxMsgs messages.
ClientLoop(maxMsgs) ==
  \/ T1Start \/ T1Recv(maxMsgs) \/ T1RecvInvalid(maxMsgs) \/ T1RecvDisconnect
  \/ T1UpstreamSendReturns \/ T1UpstreamSendRaises
  \/ T1ReplyReturns \/ T1ReplyRaises \/ T1ErrorSendEnds

\* client_to_gemini with a client that sends nothing and goes away.
SilentClientLoop == T1Start \/ T1RecvDisconnect

\* gemini_recv_loop on an upstream stream of the given response units.
\* The stream goes on for as long as its units put at most maxEvents Events.
RecvLoop(batches, contents, maxEvents) ==
  \/ T2Start \/ T2Recv(batches, contents, maxEvents)
  \/ T2CallReturns(contents, maxEvents) \/ T2ToolSendReturns(contents, maxEvents)
  \/ T2Raises

DeliveryLoop == T3Start \/ T3Get \/ T3SendReturns \/ T3SendRaises

Next ==
  \/ ClientDisconnect
  \/ Supervisor \/ TasksCancelled
  \/ ClientLoop(MaxClientMsgs)
  \/ RecvLoop(Batches(MaxBatch), Contents(PartKinds, MaxParts), MaxEvents)
  \/ DeliveryLoop

Spec == Init /\ [][Next]_vars

\* The event loop runs every task that is ready and ws_handler itself;
\* __aexit__ and ws.close() return or raise.
Fairness ==
  /\ WF_vars(Supervisor) /\ WF_vars(TasksCancelled)
  /\ WF_vars(T1Start) /\ WF_vars(T2Start) /\ WF_vars(T3Start) /\ WF_vars(T3Get)

RelayKinds == {"audio", "blank"}

\* The queue and its flush: a silent client, response units with model turns.
RelayNext ==
  \/ ClientDisconnect
  \/ Supervisor \/ TasksCancelled
  \/ SilentClientLoop
  \/ RecvLoop(Batches(RelayBatch), Contents(RelayKinds, MaxParts), RelayEvents)
  \/ DeliveryLoop

SpecRelay == InitWith({None}) /\ [][RelayNext]_vars

\* Tool dispatch: a silent client, response units that carry tool calls.
DispatchNext ==
  \/ ClientDisconnect
  \/ Supervisor \/ TasksCancelled
  \/ SilentClientLoop
  \/ RecvLoop(Batches(MaxBatch), NoModelTurn, MaxEvents)
  \/ DeliveryLoop

SpecDispatch == InitWith({None}) /\ [][DispatchNext]_vars

\* The termination race: every loop active, response units without model turn.
RaceNext ==
  \/ ClientDisconnect
  \/ Supervisor \/ TasksCancelled
  \/ ClientLoop(MaxClientMsgs)
  \/ RecvLoop(Batches(RelayBatch), NoModelTurn, RaceEvents)
  \/ DeliveryLoop

SpecRace == Init /\ [][RaceNext]_vars

FairSpecRace == SpecRace /\ Fairness

\* ------------------------------------------------------ GeminiLiveBridge
mainVars == <<supVars, pc, client_connected, t1Vars, t2Vars, out_q, t3Vars, direct_sent,
              upstream_late, startVars>>

\* A context made by `_client.aio.live.connect(...)`: whether its __aenter__
\* was called, how often its __aexit__ was called, and whether a connection
\* it opened is open.
Context(entered, exited, open) == [entered |-> entered, exited |-> exited, open |-> open]

\* `__aenter__`: connect() makes a context, the context is entered and the
\* session it yields is kept in _session; the context itself is not kept.
BridgeEnter ==
  /\ ~bridge_session /\ bridge_pc = "idle"
  /\ bridge_with = "out"
  /\ Len(bridge_ctx) < MaxContexts
  /\ bridge_session' = TRUE
  /\ bridge_with' = "in"
  /\ bridge_ctx' = Append(bridge_ctx, Context(TRUE, 0, TRUE))
  /\ UNCHANGED <<mainVars, bridge_pc, bridge_q, bridge_seq, bridge_last>>

\* `__aexit__` with _session set: connect() makes another context and that
\* one's __aexit__ is awaited.  What the exit of a context that was never
\* entered does is the library's affair: it may or may not open a connection
\* of its own (opened), and it may return or raise (raised); `_session = None`
\* is reached only when it returns.
ExitFresh(ctx, opened) == Append(ctx, Context(FALSE, 1, opened))

\* `__aexit__`, called at the end of the `async with` that called __aenter__.
BridgeExit ==
  /\ bridge_with = "in"
  /\ bridge_with' = "out"
  /\ IF bridge_session
     THEN \E opened \in BOOLEAN, raised \in BOOLEAN :
            /\ bridge_ctx' = ExitFresh(bridge_ctx, opened)
            /\ bridge_session' = raised
     ELSE UNCHANGED <<bridge_ctx, bridge_session>>
  /\ UNCHANGED <<mainVars, bridge_pc, bridge_q, bridge_seq, bridge_last>>

\* recv_loop is called: it raises RuntimeError without a session, otherwise
\* it waits for the first response.
BridgeStart ==
  /\ bridge_pc = "idle"
  /\ bridge_pc' = IF bridge_session THEN "recv" ELSE "raised"
  /\ UNCHANGED <<mainVars, bridge_session, bridge_q, bridge_seq, bridge_last, bridge_with,
                 bridge_ctx>>

\* What recv_loop does to out_q for one response with server_content c: the
\* parts of the model turn are put as in gemini_recv_loop, and on an
\* interruption the queue is drained.
BridgeResponse(c, q, seq) ==
  LET p == PutParts(c.parts, q, seq)
  IN [q |-> IF c.interrupted THEN Drain(p.q) ELSE p.q,
      seq |-> p.seq,
      last |-> IF c.interrupted THEN "flush" ELSE "put"]

\* The session yields a response; recv_loop processes it and waits for the
\* next one.
BridgeRecv(contents, maxEvents) ==
  /\ bridge_pc = "recv"
  /\ \E c \in contents :
       LET n == BridgeResponse(c, bridge_q, bridge_seq)
       IN /\ n.seq <= maxEvents + 1
          /\ bridge_q' = n.q
          /\ bridge_seq' = n.seq
          /\ bridge_last' = n.last
  /\ UNCHANGED <<mainVars, bridge_session, bridge_pc, bridge_with, bridge_ctx>>

BridgeNext ==
  \/ BridgeEnter \/ BridgeExit \/ BridgeStart
  \/ BridgeRecv(Contents(PartKinds, MaxParts), BridgeEvents)

SpecBridge == InitStart({FALSE}) /\ [][BridgeNext]_vars

\* How mcp_list_tools can end.
Discoveries == {"tools", "empty", "failed"}

\* A response unit without tool calls.
NoToolCalls == {<<>>}

\* Every way of starting a session, then a relay with a silent client and an
\* upstream stream that yields nothing and may fail.
StartNext ==
  \/ ClientDisconnect
  \/ Accept \/ DiscoverReturns(Discoveries) \/ Refuse \/ RefuseClose
  \/ Negotiate(ClientMsgs, ConfigMsgs) \/ ConnectReturns \/ RetryReturns
  \/ Supervisor \/ TasksCancelled
  \/ SilentClientLoop
  \/ T2Start \/ T2Raises
  \/ DeliveryLoop

SpecStart == InitStart(BOOLEAN) /\ [][StartNext]_vars

\* The config message of end-to-end scenario 1.
ScenarioConfig ==
  [system_instruction |-> <<"X">>, response_modalities |-> None, model |-> <<"m1">>]

\* Negotiation and the relay it hands over to: discovery fails and is not
\* required, the client sends any first message and more after it.
HandoverNext ==
  \/ ClientDisconnect
  \/ Accept \/ DiscoverReturns({"failed"})
  \/ Negotiate(ClientMsgs, {ScenarioConfig}) \/ ConnectReturns \/ RetryReturns
  \/ Supervisor \/ TasksCancelled
  \/ ClientLoop(MaxClientMsgs)
  \/ T2Start \/ T2Recv(NoToolCalls, NoModelTurn, RaceEvents) \/ T2Raises
  \/ DeliveryLoop

SpecHandover == InitStart({FALSE}) /\ [][HandoverNext]_vars

\* ================================================================ claims
Range(f) == {f[k] : k \in DOMAIN f}
SeqsOf(q) == {q[k].seq : k \in DOMAIN q}
InFlight == IF evt = NoEvent THEN {} ELSE {evt.seq}
Interrupted(e) == e.type = "interrupted"
IsRecvError(e) == e.type = "error" /\ e.message = "Gemini receive error"

\* C1: drain-then-signal.  An Interrupted Event on out_q is always its head
\* (every Event buffered when the flush began is gone and exactly one marker
\* was put), and no Event put before a flush is sent to the client after that
\* flush's Interrupted Event: whatever follows a delivered marker, delivered or
\* being sent, was put after it.
C1_NoStaleAfterInterrupted ==
  /\ \A k \in DOMAIN out_q : Interrupted(out_q[k]) => k = 1
  /\ \A i, j \in DOMAIN delivered :
       (i < j /\ Interrupted(delivered[i])) => delivered[j].seq > delivered[i].seq
  /\ \A i \in DOMAIN delivered :
       (Interrupted(delivered[i]) /\ evt # NoEvent) => evt.seq > delivered[i].seq

\* C1 witness: Events were flushed, the marker was delivered and a later
\* Event was delivered after it.
C1_Witness ==
  /\ flushed # {}
  /\ \E i \in DOMAIN delivered : Interrupted(delivered[i]) /\ i < Len(delivered)

\* A step of gemini_recv_loop that went through the interruption branch.
FlushStep ==
  /\ nextSeq' > nextSeq
  /\ out_q' # <<>>
  /\ Interrupted(out_q'[Len(out_q')])

\* C2: the flush is atomic.  The step that flushes leaves exactly the marker
\* on out_q, discards every Event that was buffered (and the parts of the same
\* response unit put before the marker) and touches nothing the consumer
\* holds; an Event once discarded is nowhere to be delivered from; and outside
\* a flush every buffered Event stays on out_q or goes to the consumer.
C2_FlushAtomic ==
  /\ [](flushed \cap (SeqsOf(delivered) \cup SeqsOf(out_q) \cup InFlight) = {})
  /\ [][FlushStep =>
          /\ out_q' = <<Event("interrupted", "", nextSeq' - 1)>>
          /\ flushed' = flushed \cup SeqsOf(out_q) \cup (nextSeq .. nextSeq' - 2)
          /\ evt' = evt
          /\ delivered' = delivered]_vars
  /\ [][~FlushStep =>
          \A k \in DOMAIN out_q :
            out_q[k] \in Range(out_q') \/ (evt' = out_q[k] /\ k = 1)]_vars

\* C2 witness: A, B, C were buffered when the flush began, D was put after
\* it, and the client was sent exactly Interrupted, D.
C2_Witness ==
  /\ Cardinality(flushed) = 3
  /\ Len(delivered) = 2
  /\ Interrupted(delivered[1])
  /\ delivered[2].seq = delivered[1].seq + 1

\* C9: delivery order.  The Events sent to the client, then the one being
\* sent, then those on out_q are in the order they were put, each once; and
\* every Event put is delivered, being sent, still buffered, or was discarded
\* by a flush, so only flushed Events are skipped.
C9_DeliveryOrder ==
  LET line == delivered \o (IF evt = NoEvent THEN <<>> ELSE <<evt>>) \o out_q
  IN /\ \A i, j \in DOMAIN line : i < j => line[i].seq < line[j].seq
     /\ SeqsOf(line) \cup flushed = 1 .. (nextSeq - 1)
     /\ SeqsOf(line) \cap flushed = {}

\* C9 witness: an Event was delivered after a skipped (flushed) one, and
\* two Events were delivered in a row.
C9_Witness ==
  /\ \E i \in DOMAIN delivered : \E s \in flushed : s < delivered[i].seq
  /\ \E i \in DOMAIN delivered :
       i < Len(delivered) /\ delivered[i + 1].seq = delivered[i].seq + 1

\* C4 (as claimed): once gemini_recv_loop has put its terminal Error Event and
\* returned, the client transport is closed only after that Event went to the
\* client: at CLOSED, with the client still there, the Event has been
\* delivered or at least handed to send_json.
C4_ErrorDeliveredBeforeClose ==
  (pcSup = "closed" /\ pc["t2"] = "done" /\ client_connected)
    => \E e \in Range(delivered) \cup {evt} : IsRecvError(e)

\* C3: the termination race.  ws_handler tears down in the order cancel,
\* release, close; when it has cancelled, every relay loop has finished or has
\* a cancel() pending; and once a loop has finished, the session reaches
\* CLOSED with the upstream connection released and every loop ended.
TeardownOrder ==
  /\ pc["t1"] # "none" =>
       \E n \in 0 .. 3 : teardown = SubSeq(<<"cancel", "release", "close">>, 1, n)
  /\ (Closing /\ pc["t1"] # "none") =>
       \A t \in Tasks : pc[t] \in Terminal \/ t \in cancel_requested
  /\ pcSup = "closed" => teardown[Len(teardown)] = "close"

C3_TerminationRace ==
  /\ []TeardownOrder
  /\ (\E t \in Tasks : pc[t] \in Terminal)
       ~> (pcSup = "closed" /\ \A t \in Tasks : pc[t] \in Terminal)

\* C3 witness: the client-forwarding loop ended on a disconnect, the other
\* two loops were cancelled, the upstream connection released, the transport
\* closed.
C3_Witness ==
  /\ pcSup = "closed"
  /\ pc = [t \in Tasks |-> IF t = "t1" THEN "done" ELSE "cancelled"]
  /\ teardown = <<"cancel", "release", "close">>

\* C10: no operation is issued on the upstream session once ws_handler is
\* past asyncio.wait, and from then on no relay loop can run a further step.
C10_NoUpstreamAfterClosing ==
  /\ ~upstream_late
  /\ Closing => \A t \in Tasks : ~Runnable(t)

\* C10 witness: closing has begun while a loop with a pending cancel() still
\* sits at an await on the upstream session.
C10_Witness ==
  /\ Closing
  /\ \E t \in cancel_requested : pc[t] \in {"recv", "toolsend", "upsend"}

\* --------------------------------------------------------- tool batches
\* gemini_recv_loop is inside a tool-call batch, at one of its two awaits.
InBatch == pc["t2"] \in {"call", "toolsend"}

\* The function calls of the batch the loop has gone through: those before
\* the call in flight, or all of them.
Resolved ==
  IF pc["t2"] = "call" THEN 1 .. (fcIdx - 1) ELSE DOMAIN function_calls

HasId(i) == function_calls[i].id # ""
EntriesOf(i) == {k \in DOMAIN function_responses : function_responses[k].idx = i}
Increasing(s) == \A i, j \in DOMAIN s : i < j => s[i] < s[j]

\* C5: requests go to the gateway one at a time in arrival order, each call
\* being made only when every earlier request has its outcome; the tool
\* response is sent only at the end of the batch, once, with one entry per
\* request that has an id, in arrival order; nothing is sent while a call is
\* in flight or for an empty reply batch.
C5_WholeBatchSent ==
  /\ pc["t2"] # "toolsend" => tool_sent = <<>>
  /\ InBatch =>
       /\ Increasing(gateway_calls)
       /\ Increasing([k \in DOMAIN function_responses |-> function_responses[k].idx])
       /\ {function_responses[k].idx : k \in DOMAIN function_responses}
            = {i \in Resolved : HasId(i)}
  /\ pc["t2"] = "call" =>
       /\ gateway_calls # <<>> /\ gateway_calls[Len(gateway_calls)] = fcIdx
       /\ EntriesOf(fcIdx) = {}
  /\ pc["t2"] = "toolsend" =>
       /\ function_responses # <<>>
       /\ tool_sent = <<function_responses>>

\* C5 witness: the tool response of a two-request batch is being sent with
\* its two entries, after a gateway call.
C5_Witness ==
  /\ pc["t2"] = "toolsend"
  /\ Len(function_calls) = 2 /\ Len(tool_sent) = 1 /\ Len(tool_sent[1]) = 2
  /\ gateway_calls # <<>>

\* The Events the loop has put since the batch began; none can have been
\* flushed meanwhile, so each is delivered, held by gemini_to_client or queued.
BatchEvents ==
  {e \in Range(delivered) \cup {evt} \cup Range(out_q) : e.seq >= batch_start /\ e # NoEvent}

\* C6: a request without an id never reaches the gateway and gets no reply
\* entry; each one gone through has put exactly one "Tool call missing id"
\* Error Event, and the requests around it are still processed.
C6_MissingIdRejected ==
  InBatch =>
    LET missing == {i \in Resolved : ~HasId(i)}
    IN /\ \A i \in DOMAIN function_calls :
            ~HasId(i) => /\ i \notin Range(gateway_calls)
                         /\ EntriesOf(i) = {}
       /\ nextSeq - batch_start = Cardinality(missing)
       /\ {e.seq : e \in BatchEvents} = batch_start .. (nextSeq - 1)
       /\ \A e \in BatchEvents : e.type = "error" /\ e.message = "Tool call missing id"
       /\ \A i \in Resolved \ missing : EntriesOf(i) # {}

\* C6 witness: the first request of a batch had no id and the second is being
\* called.
C6_Witness ==
  /\ pc["t2"] = "call" /\ fcIdx = 2
  /\ function_calls[1].id = ""
  /\ nextSeq = batch_start + 1

\* mcp_call_tool has come back and the loop has gone on to its next await.
CallStep ==
  /\ pc["t2"] = "call"
  /\ pc'["t2"] = "toolsend" \/ (pc'["t2"] = "call" /\ fcIdx' # fcIdx)

\* C7: when a gateway call comes back, raising or not, exactly one entry is
\* appended for the request, with its id and name, and on a failure the
\* entry is {error: message}; the only Events put in that step are those of
\* later requests without an id, so none for the failure; the loop goes on
\* with the rest of the batch and the session is not closing because of it.
C7_GatewayFailureIsAnEntry ==
  [][CallStep =>
       LET fc == function_calls[fcIdx]
           n == Len(function_responses)
           e == function_responses'[n + 1]
           next == IF pc'["t2"] = "call" THEN fcIdx' ELSE Len(function_calls) + 1
           skipped == {i \in (fcIdx + 1) .. (next - 1) : function_calls[i].id = ""}
       IN /\ Len(function_responses') > n
          /\ SubSeq(function_responses', 1, n) = function_responses
          /\ e.id = fc.id /\ e.name = fc.name /\ e.idx = fcIdx
          /\ \/ e.kind = "output"
             \/ e.kind = "error" /\ e.value = "str(e)"
          /\ \A k \in (n + 2) .. Len(function_responses') :
               function_responses'[k].idx > fcIdx
          /\ nextSeq' - nextSeq = Cardinality(skipped)
          /\ Len(out_q') = Len(out_q) + Cardinality(skipped)
          /\ \A k \in DOMAIN out_q' :
               k > Len(out_q) => out_q'[k].message = "Tool call missing id"
          /\ next > fcIdx
          /\ function_calls' = function_calls
          /\ pcSup' = pcSup]_vars

\* C7 witness: the first call of a batch failed, its entry is in the reply
\* batch and the second request is being called.
C7_Witness ==
  /\ pc["t2"] = "call" /\ fcIdx = 2 /\ pcSup = "wait"
  /\ Len(function_responses) = 1
  /\ function_responses[1].kind = "error" /\ function_responses[1].value = "str(e)"
  /\ nextSeq = batch_start

\* C8: the gateway is called exactly for the requests that have an id and a
\* name; a request with an id and no name gets no call and exactly one entry,
\* the error missing_function_name.
C8_CallsEqualValidRequests ==
  InBatch =>
    LET upto == IF pc["t2"] = "call" THEN fcIdx ELSE Len(function_calls)
        valid == {i \in 1 .. upto : function_calls[i].id # "" /\ function_calls[i].name # ""}
    IN /\ Range(gateway_calls) = valid
       /\ Len(gateway_calls) = Cardinality(valid)
       /\ \A i \in Resolved :
            (function_calls[i].id # "" /\ function_calls[i].name = "") =>
              /\ Cardinality(EntriesOf(i)) = 1
              /\ \A k \in EntriesOf(i) :
                   /\ function_responses[k].id = function_calls[i].id
                   /\ function_responses[k].kind = "error"
                   /\ function_responses[k].value = "missing_function_name"

\* C8 witness: a batch of one valid request and one request without a name
\* made one gateway call and a reply batch of an output and an error.
C8_Witness ==
  /\ pc["t2"] = "toolsend"
  /\ function_calls = <<[id |-> "x", name |-> "f"], [id |-> "x", name |-> ""]>>
  /\ gateway_calls = <<1>>
  /\ Len(function_responses) = 2
  /\ function_responses[1].kind = "output"
  /\ function_responses[2].value = "missing_function_name"

\* --------------------------------------------------------- session start
\* ws_handler has not yet got past the connects.
Starting == pcSup \in {"accept", "discover", "refuse", "refuse_close", "negotiate",
                       "connect", "retry"}

ErrorsSent == {k \in DOMAIN direct_sent : direct_sent[k].type = "error"}
ReadiesSent == {k \in DOMAIN direct_sent : direct_sent[k].type = "ready"}
NoTaskYet == \A t \in Tasks : pc[t] = "none"

\* C11: at most two connects are made, the first with the full configuration
\* and the second, made only after the first failed, with the same model and
\* the keys response_modalities, system_instruction and tools of it; a session
\* established by the retry runs on that reduced configuration and reaches
\* the relay with no Error Event sent; when the retry fails no Ready is sent,
\* no relay loop ever starts, and the handler reports the error (to a client
\* that is still there) and goes to close the transport.
C11_ConnectRetry ==
  /\ Len(connects) <= 2
  /\ connects # <<>> =>
       /\ connects[1] = Attempt(model, cfg)
       /\ cfg.realtime_input_config
  /\ Len(connects) = 2 =>
       /\ connects[2].model = connects[1].model
       /\ connects[2].config.response_modalities = cfg.response_modalities
       /\ connects[2].config.system_instruction = cfg.system_instruction
       /\ connects[2].config.tools = cfg.tools
       /\ ~connects[2].config.realtime_input_config
       /\ pcSup # "connect"
  /\ live_session # <<>> =>
       /\ live_session[1] = connects[Len(connects)]
       /\ pcSup \in {"ready", "wait"} => ErrorsSent = {}
  /\ (Len(connects) = 2 /\ live_session = <<>> /\ pcSup # "retry") =>
       /\ pcSup \in {"report", "close", "closed"}
       /\ NoTaskYet /\ ReadiesSent = {}
       /\ pcSup \in {"close", "closed"} =>
            \/ ~client_connected
            \/ direct_sent = <<WsMsg("error", <<"str(e)">>)>>
       /\ pcSup = "closed" => teardown = <<"close">>

\* C11 witness: the first connect failed, the retry succeeded and the relay
\* runs on the reduced configuration with only the Ready sent.
C11_Witness ==
  /\ Len(connects) = 2 /\ live_session = <<connects[2]>>
  /\ pcSup = "wait"
  /\ Len(direct_sent) = 1 /\ direct_sent[1].type = "ready"

\* C12: mcp_list_tools is called once, and has ended before any connect; a
\* failed discovery that is not required leads to connects without tools and
\* sends nothing to the client; a failed discovery that is required leads to
\* no connect at all: the handler sends the Error Event (to a client that is
\* still there) and closes.
C12_DiscoveryOnce ==
  /\ discoveries <= 1
  /\ connects # <<>> => discoveries = 1 /\ discovery \in Discoveries
  /\ (discovery = "failed" /\ ~mcp_required) =>
       /\ \A k \in DOMAIN connects :
            /\ ~connects[k].config.tools
            /\ connects[k].config.system_instruction
                 = IF config_msg.system_instruction # Absent
                   THEN config_msg.system_instruction
                   ELSE DEFAULT_CONFIG.system_instruction
       /\ pcSup \in {"negotiate", "connect", "retry", "ready"} => direct_sent = <<>>
       /\ pcSup \notin {"refuse", "refuse_close"}
  /\ (discovery = "failed" /\ mcp_required) =>
       /\ connects = <<>> /\ live_session = <<>> /\ NoTaskYet
       /\ pcSup \in {"refuse", "refuse_close", "report", "close", "closed"}
       /\ pcSup # "refuse" =>
            \/ ~client_connected
            \/ /\ direct_sent # <<>>
               /\ direct_sent[1] = WsMsg("error", <<"MCP unavailable; cannot start session.">>)
       /\ pcSup = "closed" => teardown # <<>> /\ teardown[Len(teardown)] = "close"

\* C12 witness: discovery was required and failed; the client got the Error
\* Event, the transport is closed and no connect was made.
C12_Witness ==
  /\ mcp_required /\ discovery = "failed" /\ pcSup = "closed"
  /\ client_connected /\ Len(direct_sent) = 1 /\ connects = <<>>

\* The lifecycle state ws_handler is in.
Phase ==
  CASE pcSup = "accept" -> "CONNECTING"
    [] pcSup = "negotiate" -> "NEGOTIATING"
    [] pcSup \in {"discover", "refuse", "refuse_close"} -> "DISCOVERING_TOOLS"
    [] pcSup \in {"connect", "retry"} -> "ESTABLISHING_UPSTREAM"
    [] pcSup \in {"ready", "wait"} -> "ACTIVE"
    [] pcSup \in {"release", "report", "close"} -> "CLOSING"
    [] OTHER -> "CLOSED"

\* The place of a lifecycle state in the sequence the claim gives.
Lifecycle ==
  <<"CONNECTING", "NEGOTIATING", "DISCOVERING_TOOLS", "ESTABLISHING_UPSTREAM",
    "ACTIVE", "CLOSING", "CLOSED">>
Place(ph) == CHOOSE k \in DOMAIN Lifecycle : Lifecycle[k] = ph

\* C13 (as claimed): no step of a session takes it to a lifecycle state that
\* comes earlier in the sequence CONNECTING, NEGOTIATING, DISCOVERING_TOOLS,
\* ESTABLISHING_UPSTREAM, ACTIVE, CLOSING, CLOSED than the state it is in.
C13_LifecycleOrder == [][Place(Phase') >= Place(Phase)]_vars

\* C14: at most one Ready is ever sent; none in a session whose upstream
\* session was not established; and wherever a relay loop exists (so before
\* any Event is delivered, any client message handled or forwarded, any
\* upstream response read) the Ready has been sent, as the first message on
\* the websocket.  An established session is without Ready only when the
\* send of the Ready itself failed, and then no relay loop is ever created.
C14_ReadyFirst ==
  /\ Cardinality(ReadiesSent) <= 1
  /\ live_session = <<>> => ReadiesSent = {}
  /\ (~NoTaskYet \/ delivered # <<>> \/ evt # NoEvent \/ handled # <<>> \/ nClient > 0
        \/ out_q # <<>> \/ nextSeq > 1) =>
       /\ ReadiesSent = {1}
       /\ direct_sent[1] = WsMsg("ready", live_session[1].model)
  /\ (live_session # <<>> /\ pcSup # "ready" /\ ReadiesSent = {}) =>
       /\ NoTaskYet
       /\ exc \in {"WebSocketDisconnect", "Exception"}

\* C14 witness: one Ready, then an Event delivered and the retained first
\* message and a later one handled.
C14_Witness ==
  /\ Cardinality(ReadiesSent) = 1
  /\ delivered # <<>>
  /\ handled = <<0, 1>>

\* client_to_gemini makes its first step.
T1FirstStep == pc["t1"] = "start" /\ pc'["t1"] \notin {"start", "cancelled"}

ScenarioOne ==
  /\ config_msg.model = <<"m1">>
  /\ config_msg.system_instruction = <<"X">>

\* C16 (as claimed): after a config message with model m1 and instruction X
\* every connect is made with model m1 and system instruction X, whether or
\* not tools were discovered, and the Ready carries m1.
C16_ScenarioOneAsClaimed ==
  ScenarioOne =>
    /\ \A k \in DOMAIN connects :
         /\ connects[k].model = <<"m1">>
         /\ connects[k].config.system_instruction = <<"X">>
    /\ \A k \in ReadiesSent : direct_sent[k].text = <<"m1">>

\* C16 (amended): after a config message with model m1 and instruction X
\* every connect is made with model m1 and with system instruction X when no
\* tools were discovered, X followed by the tool notice when tools were
\* discovered; the Ready carries m1.
C16_ScenarioOne ==
  ScenarioOne =>
    /\ \A k \in DOMAIN connects :
         /\ connects[k].model = <<"m1">>
         /\ connects[k].config.system_instruction =
              IF discovery = "tools" THEN <<"X">> \o ToolsNotice ELSE <<"X">>
         /\ connects[k].config.tools = (discovery = "tools")
    /\ \A k \in ReadiesSent : direct_sent[k].text = <<"m1">>

\* C16 witness: the scenario with tools discovered, both connects made and
\* the Ready sent.
C16_Witness ==
  /\ ScenarioOne /\ discovery = "tools"
  /\ Len(connects) = 2 /\ ReadiesSent = {1}

\* ------------------------------------------------------- client messages
\* The Error Event of a message that did not decode has been sent, or its
\* send has failed, and client_to_gemini moves on.
AfterInvalidMessage ==
  /\ pc["t1"] = "errsend" /\ msg = "Invalid message"
  /\ pc'["t1"] \notin {"errsend", "cancelled"}

\* C17 (as claimed): after a client message that does not decode has been
\* reported, client_to_gemini goes on to read the next client message.
C17_InvalidMessageContinues == [][AfterInvalidMessage => pc'["t1"] = "recv"]_vars

\* handle_client_msg is done with a message of unknown type.
AfterUnknownMessage ==
  /\ pc["t1"] = "wssend" /\ msg = "unknown"
  /\ pc'["t1"] \notin {"wssend", "cancelled"}

\* C18: a message of unknown type is answered on the websocket and nowhere
\* else: nothing is awaited on the upstream session for it, and the step
\* that ends its handling appends exactly the Error Event naming its type,
\* takes client_to_gemini back to recv_json and leaves ws_handler and the
\* other two loops where they were (a client that is gone makes the send
\* raise instead).
C18_UnknownTypeAnswered ==
  /\ [](pc["t1"] = "upsend" => msg \in {"audio", "text", "interrupt"})
  /\ [](pc["t1"] = "wssend" => msg \in {"ping", "unknown"})
  /\ [][AfterUnknownMessage =>
          IF client_connected
          THEN /\ direct_sent' = Append(direct_sent,
                                   WsMsg("error", <<"Unknown message type: ", "bogus">>))
               /\ pc' = [pc EXCEPT !["t1"] = "recv"]
               /\ pcSup' = pcSup /\ cancel_requested' = cancel_requested
               /\ upstream_late' = upstream_late
               /\ upstream_send_failed' = upstream_send_failed
          ELSE pc'["t1"] = "errsend" /\ direct_sent' = direct_sent]_vars

\* C18 witness: the first message had an unknown type and got its Error
\* Event; a later message has been handled and all three loops are running.
C18_Witness ==
  /\ \E k \in DOMAIN direct_sent :
       direct_sent[k] = WsMsg("error", <<"Unknown message type: ", "bogus">>)
  /\ handled = <<0, 1>>
  /\ pcSup = "wait" /\ \A t \in Tasks : pc[t] \notin Terminal

\* C19 (as claimed): once an upstream send of client_to_gemini has failed,
\* the loop is ending or has ended.
C19_UpstreamSendFailureEnds ==
  upstream_send_failed => pc["t1"] \in {"errsend", "done", "cancelled"}

\* C20 (as claimed): right after GeminiLiveBridge.recv_loop has processed a
\* response with the interruption flag, the queue holds exactly one Event, the
\* Interrupted marker.
C20_BridgeFlushLeavesMarker ==
  bridge_last = "flush" => Len(bridge_q) = 1 /\ Interrupted(bridge_q[1])

\* ------------------------------------------------------ client transport
\* The relay loops that are inside send_json(ws, ...): client_to_gemini with
\* a pong or an Error Event, gemini_to_client with an Event taken from out_q.
\* gemini_recv_loop never sends on the websocket.
InClientSend ==
  {t \in {"t1"} : pc[t] \in {"wssend", "errsend"}} \cup {t \in {"t3"} : pc[t] = "send"}

\* What client_to_gemini has sent on the websocket by itself.
SentByClientLoop == {k \in DOMAIN direct_sent : direct_sent[k].type # "ready"}

NoOverlappingSends == Cardinality(InClientSend) <= 1

\* C21 (as claimed): while the relay loops run, everything the client gets
\* after the Ready comes from gemini_to_client out of out_q, and at no time
\* are two relay loops inside a send on the websocket.
C21_OnlyDeliveryLoopSends ==
  pcSup = "wait" => SentByClientLoop = {} /\ NoOverlappingSends

\* ---------------------------------------------- GeminiLiveBridge contexts
Balanced(c) == c.exited = (IF c.entered THEN 1 ELSE 0)

\* C22 (as claimed): once GeminiLiveBridge has been entered and exited, every
\* connection context that was entered has been exited exactly once, none
\* was exited without having been entered, and no connection is open.
C22_EnterExitBalanced ==
  bridge_with = "out" =>
    \A k \in DOMAIN bridge_ctx : Balanced(bridge_ctx[k]) /\ ~bridge_ctx[k].open

====
